---- MODULE Spec2Model ----
(***************************************************************************)
(* Model of wikitextprocessor/dumpparser.py: DumpParser.__iter__, the      *)
(* generator that walks a MediaWiki XML dump with ElementTree.iterparse,   *)
(* fills the namespace registry (key2ns / ns2key) from <namespace>         *)
(* elements and yields one WikiPage per closed <page> element.             *)
(*                                                                         *)
(* The dump file is revealed element by element, in the order of the       *)
(* element close ("end") events that iterparse delivers.  An element is a  *)
(* record carrying what the code reads from it: its tag, its attributes,   *)
(* its text and, for a <page>, the children that findtext()/find() look    *)
(* up.                                                                     *)
(***************************************************************************)
EXTENDS Integers, Sequences, FiniteSets, TLC

\* ---------------------------------------------------------------- bounds
\* Longest dump explored, counted in closed elements seen by the for loop.
MaxItems == 3
\* Most iterations requested on one DumpParser instance.
MaxIters == 2
\* Longest revealed dump on which a further iteration is requested (the
\* further iteration may read on, up to MaxItems).
MaxReplayed == 2

\* ------------------------------------------------------- python values
\* Python's None.
None == "<None>"
\* A child element / attribute / text that is not there in the XML.
NoElem == "<no element>"
NoAttr == "<no attribute>"
NoText == "<no text>"
\* Marker for bytes that are not well-formed XML (or a truncated stream).
Malformed == "<malformed>"

\* An empty dict.
EmptyDict == [k \in {} |-> ""]

\* d[k] = v of a Python dict.
DictSet(d, k, v) == [x \in (DOMAIN d) \cup {k} |-> IF x = k THEN v ELSE d[x]]

\* ------------------------------------------------------ the dump's elements
TitleVals    == {NoElem, NoText, "A"}
NsVals       == {NoElem, "0", "1"}
RedirectVals == {NoElem, NoAttr, "X"}
RevTextVals  == {NoElem, NoText, "BODY"}
RevModelVals == {NoElem, "wikitext"}
KeyVals      == {NoAttr, "0", "1"}
NameVals     == {NoText, "Talk"}

\* An element as delivered by an "end" event.  Fields that a tag does not
\* use are NoElem.  revtext / revmodel are the <text> / <model> children of
\* the page's <revision> child (NoElem also when there is no <revision>).
\* inside names the container the element is nested in when that is one of
\* xml_stack_ignore, and is NoElem otherwise.
Element(tag, key, text, title, ns, redirect, revtext, revmodel) ==
    [tag |-> tag, key |-> key, text |-> text, title |-> title, ns |-> ns,
     redirect |-> redirect, revtext |-> revtext, revmodel |-> revmodel,
     inside |-> NoElem]

\* The tags of xml_stack_ignore.
xml_stack_ignore == {"contributor"}

\* The element e, found somewhere below a container with tag t.
Inside(e, t) == [e EXCEPT !.inside = t]

NamespaceElems ==
    {Element("namespace", k, t, NoElem, NoElem, NoElem, NoElem, NoElem) :
        k \in KeyVals, t \in NameVals}

PageElems ==
    {Element("page", NoAttr, NoText, t, n, r, rt, rm) :
        t \in TitleVals, n \in NsVals, r \in RedirectVals,
        rt \in RevTextVals, rm \in RevModelVals}

\* Any element whose qualified tag is not a key of tag2fn (title, ns,
\* revision, siteinfo, contributor, ... or a tag of another XML namespace).
OtherElem == Element("other", NoAttr, NoText, NoElem, NoElem, NoElem, NoElem, NoElem)

\* Elements nested in a <contributor>: <namespace> elements, <page>
\* elements (complete ones, differing in their <ns>) and any other element
\* (title, ns, text, model, redirect, id, username, ...).
NestedNamespaceElems == {Inside(e, "contributor") : e \in NamespaceElems}

NestedPageElems ==
    {Inside(Element("page", NoAttr, NoText, "A", n, NoElem, "BODY", "wikitext"),
            "contributor") : n \in NsVals}

NestedOtherElem == Inside(OtherElem, "contributor")

\* What stands in the dump where the XML is broken.
MalformedElem == Element(Malformed, NoAttr, NoText, NoElem, NoElem, NoElem, NoElem, NoElem)

\* --------------------------------------------------------------- state
VARIABLES
    dump,     \* the file's content revealed so far (closed elements, in order)
    root,     \* the element tree iterparse has built (closed elements it holds)
    key2ns,   \* self.key2ns
    ns2key,   \* self.ns2key
    pc,       \* where the generator is
    f,        \* the stream of open_dump: "unopened", "open", "closed"
    yielded,  \* the WikiPage records the consumer has received, in order
    raised,   \* the exception the consumer has received, or None
    pos,      \* how many elements of the dump the running iteration has read
    eof,      \* TRUE once the end of the file has been revealed
    iters,    \* how many iterations have been requested on the instance
    driver,   \* who consumes: "none" (any caller), "process_input", "process_dump"
    ppc,      \* where process_input / process_dump is
    page_cb,  \* the callback given to process_input
    calls,    \* the page_cb calls made so far: <<page, returned value>>
    lst,      \* lst of process_input
    added,    \* the pages passed to ctx.add_page, in call order
    analyzed  \* how many times ctx.analyze_templates was called

\* The state of process_input / process_dump and of their collaborators.
consumer == <<driver, ppc, page_cb, calls, lst, added, analyzed>>

vars == <<dump, root, key2ns, ns2key, pc, f, yielded, raised, pos, eof, iters,
          consumer>>

\* ---------------------------------------------------- ElementTree lookups
\* findtext with default="" : a missing child reads as the empty string.
findtext_default(child) ==
    IF child = NoElem THEN ""
    ELSE IF child = NoText THEN ""
    ELSE child

\* elem.findtext(path): None when no such child, "" when the child has no
\* text, else the child's text.
findtext(child) ==
    IF child = NoElem THEN None
    ELSE IF child = NoText THEN ""
    ELSE child

\* ----------------------------------------------------------- the records
WikiNamespace(ns, key) == [ns |-> ns, key |-> key]

WikiPage(title, text, model, ns, redirect) ==
    [title |-> title, text |-> text, model |-> model, ns |-> ns,
     redirect |-> redirect]

\* ------------------------------------------------------------- handlers
\* add_namespace that skips the main namespace (if ns: ...), whose name is
\* the empty string.
add_namespace_skip_empty(elem, k2n, n2k) ==
    LET ns == IF elem.text = NoText THEN "" ELSE elem.text
    IN  IF elem.key = NoAttr
        THEN [exc |-> "KeyError", key2ns |-> k2n, ns2key |-> n2k]
        ELSE IF ns = ""
        THEN [exc |-> None, key2ns |-> k2n, ns2key |-> n2k]
        ELSE [exc |-> None,
              key2ns |-> DictSet(k2n, elem.key, ns),
              ns2key |-> DictSet(n2k, ns, elem.key)]

\* add_namespace that keeps the first declaration of a key or of a name
\* (dict.setdefault).
add_namespace_setdefault(elem, k2n, n2k) ==
    LET ns == IF elem.text = NoText THEN "" ELSE elem.text
    IN  IF elem.key = NoAttr
        THEN [exc |-> "KeyError", key2ns |-> k2n, ns2key |-> n2k]
        ELSE [exc |-> None,
              key2ns |-> IF elem.key \in DOMAIN k2n THEN k2n
                         ELSE DictSet(k2n, elem.key, ns),
              ns2key |-> IF ns \in DOMAIN n2k THEN n2k
                         ELSE DictSet(n2k, ns, elem.key)]

\* add_namespace that reads the key with elem.attrib.get("key"): a missing
\* key is stored as None.
add_namespace_get(elem, k2n, n2k) ==
    LET ns  == IF elem.text = NoText THEN "" ELSE elem.text
        key == IF elem.key = NoAttr THEN None ELSE elem.key
    IN  [exc |-> None,
         key2ns |-> DictSet(k2n, key, ns),
         ns2key |-> DictSet(n2k, ns, key)]

\* add_namespace that fills ns2key the wrong way round (self.ns2key[key] = ns).
add_namespace_samedir(elem, k2n, n2k) ==
    LET ns == IF elem.text = NoText THEN "" ELSE elem.text
    IN  IF elem.key = NoAttr
        THEN [exc |-> "KeyError", key2ns |-> k2n, ns2key |-> n2k]
        ELSE [exc |-> None,
              key2ns |-> DictSet(k2n, elem.key, ns),
              ns2key |-> DictSet(n2k, elem.key, ns)]

\* add_namespace that refuses a key it already holds.
add_namespace_strict(elem, k2n, n2k) ==
    LET ns == IF elem.text = NoText THEN "" ELSE elem.text
    IN  IF elem.key = NoAttr \/ elem.key \in DOMAIN k2n
        THEN [exc |-> "KeyError", key2ns |-> k2n, ns2key |-> n2k]
        ELSE [exc |-> None,
              key2ns |-> DictSet(k2n, elem.key, ns),
              ns2key |-> DictSet(n2k, ns, elem.key)]

\* add_namespace(elem): the two dicts after the call, or the KeyError.
add_namespace(elem, k2n, n2k) ==
    LET ns == IF elem.text = NoText THEN "" ELSE elem.text
    IN  IF elem.key = NoAttr
        THEN [exc |-> "KeyError", key2ns |-> k2n, ns2key |-> n2k]
        ELSE [exc |-> None,
              key2ns |-> DictSet(k2n, elem.key, ns),
              ns2key |-> DictSet(n2k, ns, elem.key)]

\* make_wikipage that looks the key up with key2ns.get(key): an unknown key
\* gives a page whose namespace name is None instead of a KeyError.
make_wikipage_lenient(elem, k2n) ==
    LET title == findtext(elem.title)
        text  == findtext(elem.revtext)
        key   == findtext(elem.ns)
        model == findtext(elem.revmodel)
        ns    == IF key \in DOMAIN k2n THEN k2n[key] ELSE None
        NoPage == WikiPage(None, None, None, WikiNamespace(None, None), None)
    IN  IF elem.redirect = NoElem
        THEN [exc |-> None,
              page |-> WikiPage(title, text, model, WikiNamespace(ns, key), None)]
        ELSE IF elem.redirect = NoAttr
        THEN [exc |-> "KeyError", page |-> NoPage]
        ELSE [exc |-> None,
              page |-> WikiPage(title, text, "redirect",
                                WikiNamespace(ns, key), elem.redirect)]

\* make_wikipage(elem): the page returned, or the KeyError.
make_wikipage(elem, k2n) ==
    LET title == findtext(elem.title)
        text  == findtext(elem.revtext)
        key   == findtext(elem.ns)
        model == findtext(elem.revmodel)
        NoPage == WikiPage(None, None, None, WikiNamespace(None, None), None)
    IN  IF key \notin DOMAIN k2n
        THEN [exc |-> "KeyError", page |-> NoPage]
        ELSE IF elem.redirect = NoElem
        THEN [exc |-> None,
              page |-> WikiPage(title, text, model,
                                WikiNamespace(k2n[key], key), None)]
        ELSE IF elem.redirect = NoAttr
        THEN [exc |-> "KeyError", page |-> NoPage]
        ELSE [exc |-> None,
              page |-> WikiPage(title, text, "redirect",
                                WikiNamespace(k2n[key], key), elem.redirect)]

\* ---------------------------------------------------------------- Init
\* The state after DumpParser(dump_path); no generator has run yet.
Init ==
    /\ dump = <<>>
    /\ root = <<>>
    /\ key2ns = EmptyDict
    /\ ns2key = EmptyDict
    /\ pc = "constructed"
    /\ f = "unopened"
    /\ yielded = <<>>
    /\ raised = None
    /\ pos = 0
    /\ eof = FALSE
    /\ iters = 1
    /\ driver = "none"
    /\ ppc = "idle"
    /\ page_cb = None
    /\ calls = <<>>
    /\ lst = <<>>
    /\ added = <<>>
    /\ analyzed = 0

\* The consumer has asked for the next page: any caller may at any time;
\* the for loop of process_input asks again once page_cb has returned for
\* the page it was given.
Requested ==
    \/ driver = "none"
    \/ ppc = "loop" /\ Len(calls) = Len(yielded)

\* The generator is inside the for loop (running, or suspended at the yield
\* and resumed by the consumer's next request).
InLoop == pc \in {"running", "suspended"} /\ Requested

\* The next "end" event of the stream delivers elem: the element that
\* follows the ones already read, which is new to us when no iteration has
\* read that far yet.
Reads(elem) ==
    /\ pos < MaxItems
    /\ IF pos < Len(dump)
       THEN elem = dump[pos + 1] /\ dump' = dump
       ELSE ~eof /\ dump' = Append(dump, elem)
    /\ pos' = pos + 1
    /\ UNCHANGED <<eof, iters, consumer>>

\* An except clause that swallows the exception instead of re-raising it:
\* the generator just ends.
Propagate_swallow(exc) ==
    /\ pc' = "done"
    /\ f' = "closed"
    /\ raised' = raised

\* An exception leaves the with block (the stream is closed), passes the
\* except clause, which re-raises it, and reaches the consumer.
Propagate(exc) ==
    /\ pc' = "failed"
    /\ f' = "closed"
    /\ raised' = exc

\* -------------------------------------------------------------- actions
\* First request for a page: the generator body starts and open_dump() is
\* called; it returns a stream or raises (no such file, ...).
Begin ==
    /\ pc = "constructed"
    /\ Requested
    /\ \E ok \in BOOLEAN :
         IF ok
         THEN /\ pc' = "running"
              /\ f' = "open"
              /\ raised' = raised
         ELSE /\ pc' = "failed"
              /\ f' = f
              /\ raised' = "OSError"
    /\ UNCHANGED <<dump, root, key2ns, ns2key, yielded, pos, eof, iters, consumer>>

\* An "end" event of an element that tag2fn does not know: fn is None.
EndOther ==
    /\ InLoop
    /\ Reads(OtherElem)
    /\ root' = Append(root, OtherElem)
    /\ pc' = "running"
    /\ UNCHANGED <<key2ns, ns2key, f, yielded, raised>>

\* An "end" event of a <namespace>: add_namespace(elem) returns None, so
\* nothing is yielded.
EndNamespace ==
    /\ InLoop
    /\ \E elem \in NamespaceElems :
         LET r == add_namespace(elem, key2ns, ns2key)
         IN  /\ Reads(elem)
             /\ root' = Append(root, elem)
             /\ key2ns' = r.key2ns
             /\ ns2key' = r.ns2key
             /\ IF r.exc = None
                THEN pc' = "running" /\ UNCHANGED <<f, raised>>
                ELSE Propagate(r.exc)
    /\ UNCHANGED yielded

\* The same event for a <namespace> nested in a <contributor>: the loop
\* looks at elem.tag only, so fn is add_namespace again.
EndNestedNamespace ==
    /\ InLoop
    /\ \E elem \in NestedNamespaceElems :
         LET r == add_namespace(elem, key2ns, ns2key)
         IN  /\ Reads(elem)
             /\ root' = Append(root, elem)
             /\ key2ns' = r.key2ns
             /\ ns2key' = r.ns2key
             /\ IF r.exc = None
                THEN pc' = "running" /\ UNCHANGED <<f, raised>>
                ELSE Propagate(r.exc)
    /\ UNCHANGED yielded

\* An "end" event of any other element nested in a <contributor>.
EndNestedOther ==
    /\ InLoop
    /\ Reads(NestedOtherElem)
    /\ root' = Append(root, NestedOtherElem)
    /\ pc' = "running"
    /\ UNCHANGED <<key2ns, ns2key, f, yielded, raised>>

\* The for loop yielding the page of a <page> element on both of its events.
EndPage_twice ==
    /\ InLoop
    /\ \E elem \in PageElems :
         LET r == make_wikipage(elem, key2ns)
         IN  /\ Reads(elem)
             /\ root' = Append(root, elem)
             /\ IF r.exc = None
                THEN /\ yielded' = Append(Append(yielded, r.page), r.page)
                     /\ pc' = "suspended"
                     /\ UNCHANGED <<f, raised>>
                ELSE /\ yielded' = yielded
                     /\ Propagate(r.exc)
    /\ UNCHANGED <<key2ns, ns2key>>

\* An "end" event of a <page>: make_wikipage(elem) returns the page, which
\* is yielded to the consumer.
EndPage ==
    /\ InLoop
    /\ \E elem \in PageElems :
         LET r == make_wikipage(elem, key2ns)
         IN  /\ Reads(elem)
             /\ root' = Append(root, elem)
             /\ IF r.exc = None
                THEN /\ yielded' = Append(yielded, r.page)
                     /\ pc' = "suspended"
                     /\ UNCHANGED <<f, raised>>
                ELSE /\ yielded' = yielded
                     /\ Propagate(r.exc)
    /\ UNCHANGED <<key2ns, ns2key>>

\* The same event for a <page> nested in a <contributor>: fn is
\* make_wikipage again.
EndNestedPage ==
    /\ InLoop
    /\ \E elem \in NestedPageElems :
         LET r == make_wikipage(elem, key2ns)
         IN  /\ Reads(elem)
             /\ root' = Append(root, elem)
             /\ IF r.exc = None
                THEN /\ yielded' = Append(yielded, r.page)
                     /\ pc' = "suspended"
                     /\ UNCHANGED <<f, raised>>
                ELSE /\ yielded' = yielded
                     /\ Propagate(r.exc)
    /\ UNCHANGED <<key2ns, ns2key>>

\* iterparse raises: the XML is malformed or truncated (ParseError), or the
\* stream cannot be read or decompressed (OSError).
ReadFailure ==
    /\ InLoop
    /\ Reads(MalformedElem)
    /\ \E exc \in {"ParseError", "OSError"} : Propagate(exc)
    /\ UNCHANGED <<root, key2ns, ns2key, yielded>>

\* iterparse is exhausted: the for loop and the with block end, the
\* generator returns.
Exhausted ==
    /\ InLoop
    /\ pos = Len(dump)
    /\ eof' = TRUE
    /\ pc' = "done"
    /\ f' = "closed"
    /\ UNCHANGED <<dump, root, key2ns, ns2key, yielded, raised, pos, iters, consumer>>

\* The stream opened without a with block: closing the generator leaves it
\* open.
Close_leak ==
    /\ pc \in {"constructed", "suspended"}
    /\ driver = "none" \/ ppc = "raised"
    /\ pc' = "closed"
    /\ UNCHANGED <<dump, root, key2ns, ns2key, f, yielded, raised, pos, eof, iters,
                   consumer>>

\* The consumer abandons the iteration: the generator is closed while it is
\* suspended at the yield (GeneratorExit leaves the with block and is not
\* an Exception), or before it ever started.  process_input never abandons
\* its loop; its generator is disposed of only after an exception of
\* page_cb has left the loop.
Close ==
    /\ pc \in {"constructed", "suspended"}
    /\ driver = "none" \/ ppc = "raised"
    /\ pc' = "closed"
    /\ f' = IF f = "open" THEN "closed" ELSE f
    /\ UNCHANGED <<dump, root, key2ns, ns2key, yielded, raised, pos, eof, iters,
                   consumer>>

Next ==
    \/ Begin
    \/ EndOther
    \/ EndNamespace
    \/ EndPage
    \/ ReadFailure
    \/ Exhausted
    \/ Close

Spec == Init /\ [][Next]_vars

\* ------------------------------------------ process_input, process_dump
\* An exception raised by page_cb.
Raises == "<raises>"

\* The callbacks process_input is tried with; each is a function of the
\* page it is given:
\*   "title"        lambda page: page.title          (None, "" or a title)
\*   "strict_text"  lambda page: page.text.strip()   (raises when text is None)
PageCbs == {"title", "strict_text"}

\* page_cb(page) for the callbacks of PageCbs: the value returned, or Raises.
CallPageCb(cb, page) ==
    CASE cb = "title" -> page.title
      [] cb = "strict_text" -> IF page.text = None THEN Raises ELSE page.text

\* What phase1_page_handler(page) may do: ctx.add_page(page) returns and
\* the handler returns None, or ctx.add_page raises.
Phase1Outcomes == {None, Raises}

\* if ret: lst.append(ret) -- an empty value is dropped as well.
collect_truthy(l, ret) ==
    IF ret # None /\ ret # "" THEN Append(l, ret) ELSE l

\* if ret is not None: lst.append(ret)
collect(l, ret) ==
    IF ret # None THEN Append(l, ret) ELSE l

\* The state inside process_input once parser and lst are set up.
InProcessInput ==
    /\ dump = <<>>
    /\ root = <<>>
    /\ key2ns = EmptyDict
    /\ ns2key = EmptyDict
    /\ pc = "constructed"
    /\ f = "unopened"
    /\ yielded = <<>>
    /\ raised = None
    /\ pos = 0
    /\ eof = FALSE
    /\ iters = 1
    /\ ppc = "loop"
    /\ calls = <<>>
    /\ lst = <<>>
    /\ added = <<>>
    /\ analyzed = 0

\* process_input(path, page_cb) called with one of the callbacks.
InitProcessInput ==
    /\ InProcessInput
    /\ driver = "process_input"
    /\ page_cb \in PageCbs

\* process_dump(ctx, path): process_input(path, phase1_page_handler).
InitProcessDump ==
    /\ InProcessInput
    /\ driver = "process_dump"
    /\ page_cb = "phase1_page_handler"

\* The body of the for loop of process_input for the page just yielded:
\* page_cb(page) and the collection of its result.  phase1_page_handler
\* passes the page to ctx.add_page.  An exception of page_cb leaves
\* process_input.
PageCb ==
    /\ ppc = "loop"
    /\ pc = "suspended"
    /\ Len(calls) < Len(yielded)
    /\ LET page == yielded[Len(yielded)]
       IN  \E ret \in (IF page_cb = "phase1_page_handler" THEN Phase1Outcomes
                       ELSE {CallPageCb(page_cb, page)}) :
             /\ calls' = Append(calls, [page |-> page, ret |-> ret])
             /\ added' = IF page_cb = "phase1_page_handler"
                         THEN Append(added, page) ELSE added
             /\ IF ret = Raises
                THEN ppc' = "raised" /\ lst' = lst
                ELSE ppc' = ppc /\ lst' = collect(lst, ret)
    /\ UNCHANGED <<dump, root, key2ns, ns2key, pc, f, yielded, raised, pos, eof,
                   iters, driver, page_cb, analyzed>>

\* The parser is exhausted: the for loop ends and process_input returns lst.
ProcessInputReturns ==
    /\ ppc = "loop"
    /\ pc = "done"
    /\ ppc' = "returned"
    /\ UNCHANGED <<dump, root, key2ns, ns2key, pc, f, yielded, raised, pos, eof,
                   iters, driver, page_cb, calls, lst, added, analyzed>>

\* The parser raised: the exception leaves process_input (and process_dump).
ProcessInputRaises ==
    /\ ppc = "loop"
    /\ pc = "failed"
    /\ ppc' = "raised"
    /\ UNCHANGED <<dump, root, key2ns, ns2key, pc, f, yielded, raised, pos, eof,
                   iters, driver, page_cb, calls, lst, added, analyzed>>

\* analyze_templates called in a finally clause: also after an exception.
AnalyzeTemplates_finally ==
    /\ driver = "process_dump"
    /\ ppc \in {"returned", "raised"}
    /\ analyzed = 0
    /\ analyzed' = analyzed + 1
    /\ ppc' = IF ppc = "returned" THEN "analyzed" ELSE ppc
    /\ UNCHANGED <<dump, root, key2ns, ns2key, pc, f, yielded, raised, pos, eof,
                   iters, driver, page_cb, calls, lst, added>>

\* process_dump after process_input has returned: ctx.analyze_templates().
AnalyzeTemplates ==
    /\ driver = "process_dump"
    /\ ppc = "returned"
    /\ analyzed' = analyzed + 1
    /\ ppc' = "analyzed"
    /\ UNCHANGED <<dump, root, key2ns, ns2key, pc, f, yielded, raised, pos, eof,
                   iters, driver, page_cb, calls, lst, added>>

NextProcessInput ==
    \/ Next
    \/ PageCb
    \/ ProcessInputReturns
    \/ ProcessInputRaises

SpecProcessInput == InitProcessInput /\ [][NextProcessInput]_vars

NextProcessDump ==
    \/ NextProcessInput
    \/ AnalyzeTemplates

SpecProcessDump == InitProcessDump /\ [][NextProcessDump]_vars

\* ------------------------------------- dumps with nested <contributor>s
NextNested ==
    \/ Next
    \/ EndNestedNamespace
    \/ EndNestedPage
    \/ EndNestedOther

SpecNested == Init /\ [][NextNested]_vars

\* ------------------------------------------- iterating an instance again
\* The caller asks the same instance for an iterator again, after the
\* previous generator has ended: __iter__ makes a new generator, which will
\* open the dump anew and build a new tree.  __init__ is not run again, so
\* key2ns and ns2key are the ones the previous iterations left.
Restart ==
    /\ pc \in {"done", "failed", "closed"}
    /\ driver = "none"
    /\ iters < MaxIters
    /\ Len(dump) <= MaxReplayed
    /\ iters' = iters + 1
    /\ pc' = "constructed"
    /\ f' = "unopened"
    /\ root' = <<>>
    /\ yielded' = <<>>
    /\ raised' = None
    /\ pos' = 0
    /\ UNCHANGED <<dump, key2ns, ns2key, eof, consumer>>

NextReiter ==
    \/ Next
    \/ Restart

SpecReiter == Init /\ [][NextReiter]_vars

\* What the for loop does over the elements s when it starts with the
\* dicts k2n / n2k and has yielded out so far: the pages yielded, whether an
\* exception ended it, and how many elements it read.
RECURSIVE RunLoop(_, _, _, _, _)
RunLoop(s, k2n, n2k, out, n) ==
    IF s = <<>>
    THEN [yielded |-> out, failed |-> FALSE, read |-> n]
    ELSE LET elem == Head(s)
         IN  CASE elem.tag = "namespace" ->
                    LET r == add_namespace(elem, k2n, n2k)
                    IN  IF r.exc # None
                        THEN [yielded |-> out, failed |-> TRUE, read |-> n + 1]
                        ELSE RunLoop(Tail(s), r.key2ns, r.ns2key, out, n + 1)
               [] elem.tag = "page" ->
                    LET r == make_wikipage(elem, k2n)
                    IN  IF r.exc # None
                        THEN [yielded |-> out, failed |-> TRUE, read |-> n + 1]
                        ELSE RunLoop(Tail(s), k2n, n2k, Append(out, r.page), n + 1)
               [] elem.tag = Malformed ->
                    [yielded |-> out, failed |-> TRUE, read |-> n + 1]
               [] OTHER -> RunLoop(Tail(s), k2n, n2k, out, n + 1)

\* An iteration of a freshly constructed instance over the elements s.
FreshRun(s) == RunLoop(s, EmptyDict, EmptyDict, <<>>, 0)

\* ------------------------------------------------- reading the dump back
\* These describe the dump itself, independently of the handlers above.
IsPage(e) == e.tag = "page"
IsNamespace(e) == e.tag = "namespace"

\* The <page> elements among s, in document order.
PagesOf(s) == SelectSeq(s, IsPage)

\* The <namespace> elements among s, in document order.
NamespacesOf(s) == SelectSeq(s, IsNamespace)

\* The keys declared by the <namespace> elements that close before the
\* i-th element of the dump.
DeclaredBefore(i) ==
    {dump[j].key : j \in {n \in 1..(i - 1) : IsNamespace(dump[n]) /\ dump[n].key # NoAttr}}

\* The text of a child element as the XML has it: nothing when the child is
\* missing, the empty string when it is empty.
TextOf(child) == CASE child = NoElem -> None
                   [] child = NoText -> ""
                   [] OTHER -> child

\* The pages that closed before the last element of the dump.
PagesBeforeLast == PagesOf(SubSeq(dump, 1, Len(dump) - 1))

\* ------------------------------------------------------------- claims

\* C1: every record yielded for a <page> that has a <redirect title="X">
\* child has redirect = X, text absent and model = "redirect", whatever the
\* page's <revision> holds.
C1_RedirectRecord ==
    \A j \in 1..Len(yielded) :
        j <= Len(PagesOf(dump)) =>
            LET e == PagesOf(dump)[j]
            IN  e.redirect \notin {NoElem, NoAttr} =>
                    /\ yielded[j].redirect = e.redirect
                    /\ yielded[j].text = None
                    /\ yielded[j].model = "redirect"

\* C2: no record with an absent or empty title is ever yielded.
C2_NoEmptyTitle ==
    \A j \in 1..Len(yielded) : yielded[j].title \notin {None, ""}

\* C3: a <page> whose <ns> key is not in the registry when the page closes
\* (never declared, declared later, or no <ns> at all) ends the iteration
\* with an error at that page: it is the last element read, no record is
\* yielded for it and the consumer holds only the records of earlier pages.
C3_UnknownNamespaceFails ==
    \A i \in 1..Len(dump) :
        (IsPage(dump[i]) /\ dump[i].ns \notin DeclaredBefore(i)) =>
            /\ i = Len(dump)
            /\ pc = "failed"
            /\ raised = "KeyError"
            /\ Len(yielded) = Len(PagesOf(SubSeq(dump, 1, i - 1)))

C3_Witness ==
    /\ pc = "failed"
    /\ Len(dump) = 3
    /\ IsPage(dump[3]) /\ dump[3].ns = "1"
    /\ DOMAIN key2ns = {"0"}
    /\ Len(yielded) = 1

\* C4: after a full iteration the consumer holds exactly one record per
\* <page> element of the dump, in document order.
C4_OneRecordPerPage ==
    pc = "done" =>
        /\ Len(yielded) = Len(PagesOf(dump))
        /\ \A j \in 1..Len(yielded) :
               j <= Len(PagesOf(dump)) =>
                   /\ yielded[j].title = TextOf(PagesOf(dump)[j].title)
                   /\ yielded[j].ns.key = PagesOf(dump)[j].ns

C4_Witness ==
    /\ pc = "done"
    /\ Len(yielded) = 2
    /\ yielded[1].title # yielded[2].title

\* C5 as stated: after a full iteration over a dump whose N <namespace>
\* elements have pairwise distinct keys, key2ns has N keys and ns2key has N
\* entries.
DistinctKeys ==
    \A i, j \in 1..Len(NamespacesOf(dump)) :
        i # j => NamespacesOf(dump)[i].key # NamespacesOf(dump)[j].key

DeclaredNames ==
    {TextOf(NamespacesOf(dump)[i].text) : i \in 1..Len(NamespacesOf(dump))}

C5_RegistryCount ==
    (pc = "done" /\ DistinctKeys) =>
        /\ Cardinality(DOMAIN key2ns) = Len(NamespacesOf(dump))
        /\ Cardinality(DOMAIN ns2key) = Len(NamespacesOf(dump))

\* C5 amended: key2ns has N keys, and ns2key has one entry per distinct
\* namespace name (N entries when the names are pairwise distinct too).
C5_RegistryCountByName ==
    (pc = "done" /\ DistinctKeys) =>
        /\ Cardinality(DOMAIN key2ns) = Len(NamespacesOf(dump))
        /\ Cardinality(DOMAIN ns2key) = Cardinality(DeclaredNames)

C5_Witness ==
    /\ pc = "done"
    /\ DistinctKeys
    /\ Len(NamespacesOf(dump)) = 2
    /\ Cardinality(DOMAIN ns2key) = 2
    /\ Len(yielded) = 1

\* C6: however the iteration ends (exhaustion, error, abandonment by the
\* consumer), the stream it opened is not left open, and abandonment raises
\* nothing to the consumer.
C6_StreamReleased ==
    /\ pc \in {"done", "failed", "closed"} => f # "open"
    /\ pc = "closed" => raised = None

C6_Witness ==
    /\ pc = "closed"
    /\ f = "closed"
    /\ Len(yielded) = 1
    /\ Len(dump) < MaxItems

\* C7: the parser holds no element whose close event has been processed
\* (every element of root is a closed one).
C7_RetainsOnlyOpen ==
    Len(root) = 0

\* C8: every record yielded for a <page> without a <redirect> child has
\* redirect absent, text = the text of ./revision/text (absent when there
\* is no such element) and model = the text of ./revision/model.
C8_ContentRecord ==
    \A j \in 1..Len(yielded) :
        j <= Len(PagesOf(dump)) =>
            LET e == PagesOf(dump)[j]
            IN  e.redirect = NoElem =>
                    /\ yielded[j].redirect = None
                    /\ yielded[j].text = TextOf(e.revtext)
                    /\ yielded[j].model = TextOf(e.revmodel)

C8_Witness ==
    /\ Len(yielded) = 2
    /\ yielded[1].redirect = None /\ yielded[1].text = "BODY"
    /\ yielded[1].model = "wikitext"
    /\ yielded[2].redirect = None /\ yielded[2].text = None

\* C9: in every yielded record, redirect is set if and only if text is
\* absent and model is "redirect".
C9_RedirectIffNoText ==
    \A j \in 1..Len(yielded) :
        (yielded[j].redirect # None) <=>
            (yielded[j].text = None /\ yielded[j].model = "redirect")

\* C10: a failure reaches the consumer at its position in the dump: the
\* offending element is the last one read, the consumer holds an exception
\* and exactly the records of the pages that closed before it.
Offending(i) ==
    \/ dump[i].tag = Malformed
    \/ IsNamespace(dump[i]) /\ dump[i].key = NoAttr
    \/ IsPage(dump[i]) /\ dump[i].ns \notin DeclaredBefore(i)

C10_FailureAtPosition ==
    /\ \A i \in 1..Len(dump) :
           Offending(i) => (i = Len(dump) /\ pc = "failed" /\ raised # None)
    /\ pc = "failed" =>
           /\ raised # None
           /\ Len(yielded) = Len(PagesBeforeLast)
           /\ \A j \in 1..Len(yielded) :
                  j <= Len(PagesBeforeLast) =>
                      /\ yielded[j].title = TextOf(PagesBeforeLast[j].title)
                      /\ yielded[j].ns.key = PagesBeforeLast[j].ns

C10_Witness ==
    /\ pc = "failed"
    /\ raised = "ParseError"
    /\ Len(dump) = 3
    /\ Len(yielded) = 1

\* C11: an instance gives a single forward-only pass: an iteration requested
\* after an earlier one was started or exhausted does not produce the
\* records from the first page again.
FromFirstPage ==
    /\ Len(yielded) > 0
    /\ Len(yielded) <= Len(PagesOf(dump))
    /\ \A j \in 1..Len(yielded) :
           /\ yielded[j].title = TextOf(PagesOf(dump)[j].title)
           /\ yielded[j].ns.key = PagesOf(dump)[j].ns

C11_SinglePass ==
    iters > 1 => ~FromFirstPage

\* C18: whatever registry earlier iterations left on the instance, an
\* iteration that has read the first pos elements of the dump has yielded
\* the records, and has failed at the element, that an iteration of a
\* freshly constructed instance yields and fails at.
C18_SameAsFresh ==
    pos > 0 =>
        LET fresh == FreshRun(SubSeq(dump, 1, pos))
        IN  /\ fresh.read = pos
            /\ yielded = fresh.yielded
            /\ (pc = "failed") = fresh.failed

C18_Witness ==
    /\ iters = 2
    /\ pos = 3
    /\ pc = "failed"
    /\ raised = "KeyError"
    /\ Len(yielded) = 1
    /\ DOMAIN key2ns = {"0"}

\* C14: nothing nested in a <contributor> has an effect: no yielded record
\* comes from a <page> nested in one, and every key of the registry was
\* declared by a <namespace> that is not nested in one.
IsNested(e) == e.inside \in xml_stack_ignore

TopLevelKeys ==
    {dump[i].key : i \in {n \in 1..Len(dump) :
                            IsNamespace(dump[n]) /\ ~IsNested(dump[n])}}

C14_ContributorSuppressed ==
    /\ \A j \in 1..Len(yielded) :
           j <= Len(PagesOf(dump)) => ~IsNested(PagesOf(dump)[j])
    /\ DOMAIN key2ns \subseteq TopLevelKeys

\* The positions among s of the <namespace> elements that carry a key.
DeclIdx(s) == {i \in 1..Len(s) : IsNamespace(s[i]) /\ s[i].key # NoAttr}

\* The largest member of a non-empty set of numbers.
Largest(S) == CHOOSE i \in S : \A j \in S : j <= i

\* The registry that the declarations among s amount to when each key and
\* each name keeps what its last declaration gave it.
ExpectedKey2ns(s) ==
    [k \in {s[i].key : i \in DeclIdx(s)} |->
        TextOf(s[Largest({i \in DeclIdx(s) : s[i].key = k})].text)]

ExpectedNs2key(s) ==
    [n \in {TextOf(s[i].text) : i \in DeclIdx(s)} |->
        s[Largest({i \in DeclIdx(s) : TextOf(s[i].text) = n})].key]

\* C15: when the consumer holds k records and asks for no more (it is
\* handed the k-th, or has closed the iteration), the k-th page is the last
\* element read and the registry holds exactly the declarations that
\* closed before it; it stays so after the iteration is closed.
C15_RegistryFollowsEvents ==
    (pc \in {"suspended", "closed"} /\ Len(yielded) > 0) =>
        /\ IsPage(dump[Len(dump)])
        /\ Len(PagesOf(dump)) = Len(yielded)
        /\ key2ns = ExpectedKey2ns(dump)
        /\ ns2key = ExpectedNs2key(dump)

C15_Witness ==
    /\ pc = "closed"
    /\ Len(yielded) = 1
    /\ Len(dump) = 3
    /\ Cardinality(DeclIdx(dump)) = 2
    /\ Cardinality(DOMAIN key2ns) = 1

\* C16: a <namespace> without a key attribute ends the iteration with an
\* error at that element: it is the last element read, the registry is what
\* the elements before it made it, and only the pages before it were
\* yielded.
C16_NamespaceWithoutKey ==
    \A i \in 1..Len(dump) :
        (IsNamespace(dump[i]) /\ dump[i].key = NoAttr) =>
            /\ i = Len(dump)
            /\ pc = "failed"
            /\ raised = "KeyError"
            /\ key2ns = ExpectedKey2ns(SubSeq(dump, 1, i - 1))
            /\ ns2key = ExpectedNs2key(SubSeq(dump, 1, i - 1))
            /\ Len(yielded) = Len(PagesOf(SubSeq(dump, 1, i - 1)))

C16_Witness ==
    /\ pc = "failed"
    /\ Len(dump) = 3
    /\ IsNamespace(dump[3]) /\ dump[3].key = NoAttr /\ dump[3].text = "Talk"
    /\ Len(yielded) = 1
    /\ DOMAIN ns2key = {""}

\* C17 as stated: key2ns and ns2key are mutual inverses at every point,
\* also when declarations repeat a name or a key.
MutualInverses ==
    /\ \A k \in DOMAIN key2ns :
           key2ns[k] \in DOMAIN ns2key /\ ns2key[key2ns[k]] = k
    /\ \A n \in DOMAIN ns2key :
           ns2key[n] \in DOMAIN key2ns /\ key2ns[ns2key[n]] = n

C17_MutualInverses ==
    MutualInverses

\* C17 amended: they are mutual inverses as long as the declarations read
\* so far carry pairwise distinct keys and pairwise distinct names.
DistinctDeclarations ==
    \A i, j \in DeclIdx(dump) :
        i # j => /\ dump[i].key # dump[j].key
                 /\ TextOf(dump[i].text) # TextOf(dump[j].text)

C17_InversesWhenDistinct ==
    DistinctDeclarations => MutualInverses

C17_Witness ==
    /\ DistinctDeclarations
    /\ Cardinality(DeclIdx(dump)) = 2
    /\ Cardinality(DOMAIN key2ns) = 2
    /\ Len(yielded) = 1

\* The page_cb calls that raised.
RaisedCalls == {j \in 1..Len(calls) : calls[j].ret = Raises}

\* C12: process_dump passes every yielded page to ctx.add_page once, in
\* yield order; ctx.analyze_templates is called at most once, only after
\* the parser is exhausted and every page was added, and never when the
\* parse or an add_page call raised; once process_dump is over it was
\* called exactly once.
C12_AddThenAnalyze ==
    driver = "process_dump" =>
        /\ Len(added) <= Len(yielded)
        /\ Len(yielded) - Len(added) <= 1
        /\ added = SubSeq(yielded, 1, Len(added))
        /\ analyzed <= 1
        /\ analyzed = 1 => (pc = "done" /\ added = yielded /\ RaisedCalls = {})
        /\ ppc = "analyzed" => analyzed = 1
        /\ (pc = "failed" \/ RaisedCalls # {}) => analyzed = 0

C12_Witness ==
    /\ driver = "process_dump"
    /\ ppc = "analyzed"
    /\ analyzed = 1
    /\ Len(added) = 2
    /\ added[1] # added[2]

\* The values page_cb returned that are not None, in call order.
ReturnedValues ==
    LET kept == SelectSeq(calls, LAMBDA c : c.ret \notin {None, Raises})
    IN  [i \in 1..Len(kept) |-> kept[i].ret]

\* C13: process_input calls page_cb once for every yielded page, in order,
\* and its list holds exactly the values page_cb returned that are not
\* None; when it returns, every yielded page has had its call.
C13_CollectsNonNone ==
    driver = "process_input" =>
        /\ Len(calls) <= Len(yielded)
        /\ Len(yielded) - Len(calls) <= 1
        /\ \A j \in 1..Len(calls) : j <= Len(yielded) => calls[j].page = yielded[j]
        /\ lst = ReturnedValues
        /\ ppc = "returned" => Len(calls) = Len(yielded)

C13_Witness ==
    /\ driver = "process_input"
    /\ ppc = "returned"
    /\ Len(calls) = 2
    /\ calls[1].ret = None
    /\ calls[2].ret = "A"
    /\ lst = <<"A">>

====
